---- MODULE Spec2Model ----
(***************************************************************************)
(* Interval networks and symbolic interval propagation                     *)
(* (symbolic_interval/symbolic_network.py).                                *)
(*                                                                         *)
(* Tensors are modelled in row-major flattened form together with their    *)
(* shape; numbers are exact rationals <<numerator, denominator>> in lowest *)
(* terms with a positive denominator.                                      *)
(***************************************************************************)
EXTENDS Integers, Sequences, FiniteSets, TLC

VARIABLES model, X, shape0, epsilon, domain, net, ix, i, pc

vars == <<model, X, shape0, epsilon, domain, net, ix, i, pc>>

(***************************************************************************)
(* Bounds of the explored input space.                                     *)
(***************************************************************************)
MaxLayers == 3

(***************************************************************************)
(* Exact rational arithmetic.                                              *)
(***************************************************************************)
IAbs(a) == IF a < 0 THEN -a ELSE a

RECURSIVE Gcd(_, _)
Gcd(a, b) == IF b = 0 THEN a ELSE Gcd(b, a % b)

RNorm(n, d) ==
  IF n = 0 THEN <<0, 1>>
  ELSE LET g == Gcd(IAbs(n), d) IN <<n \div g, d \div g>>

Q(k) == <<k, 1>>
Zero == <<0, 1>>
One == <<1, 1>>
Two == <<2, 1>>

RAdd(a, b) == RNorm(a[1] * b[2] + b[1] * a[2], a[2] * b[2])
RNeg(a) == <<-a[1], a[2]>>
RSub(a, b) == RAdd(a, RNeg(b))
RMul(a, b) == RNorm(a[1] * b[1], a[2] * b[2])
RDiv(a, b) ==
  IF b[1] > 0 THEN RNorm(a[1] * b[2], a[2] * b[1])
  ELSE RNorm(-(a[1] * b[2]), -(a[2] * b[1]))
RAbs(a) == <<IAbs(a[1]), a[2]>>
RLt(a, b) == a[1] * b[2] < b[1] * a[2]
RLe(a, b) == a[1] * b[2] <= b[1] * a[2]
RMax(a, b) == IF RLt(a, b) THEN b ELSE a
RMin(a, b) == IF RLt(a, b) THEN a ELSE b
Bool01(p) == IF p THEN One ELSE Zero

RECURSIVE RSum(_)
RSum(s) == IF s = <<>> THEN Zero ELSE RAdd(Head(s), RSum(Tail(s)))

RECURSIVE IProd(_)
IProd(s) == IF s = <<>> THEN 1 ELSE Head(s) * IProd(Tail(s))

\* a function on 1..n as an explicit tuple
Tensor(f) == f \o <<>>

RECURSIVE Concat(_)
Concat(ss) == IF ss = <<>> THEN <<>> ELSE Head(ss) \o Concat(Tail(ss))

(***************************************************************************)
(* Tensor primitives (torch.nn.functional).  A vector is a sequence of     *)
(* rationals; weights and biases of the layers are integers.               *)
(***************************************************************************)
\* F.linear(v, W, bias): out[o] = sum_k W[o][k] * v[k] + bias[o]
F_linear(v, W, bias) ==
  Tensor([o \in 1..Len(W) |->
     RAdd(RSum(Tensor([k \in 1..Len(v) |-> RMul(Q(W[o][k]), v[k])])), Q(bias[o]))])

ZeroBias(W) == Tensor([o \in 1..Len(W) |-> 0])
AbsW(W) == Tensor([o \in 1..Len(W) |-> Tensor([k \in 1..Len(W[o]) |-> IAbs(W[o][k])])])

\* Output shape <<O, Ho, Wo>> of conv2d on an input of shape <<C, H, W>>.
ConvOutShape(shape, W, stride, padding) ==
  << Len(W),
     ((shape[2] + 2 * padding - Len(W[1][1])) \div stride) + 1,
     ((shape[3] + 2 * padding - Len(W[1][1][1])) \div stride) + 1 >>

\* Element (c, h, w) of a flattened <<C, H, W>> tensor with zero padding.
PadAt(v, shape, c, h, w) ==
  IF h >= 1 /\ h <= shape[2] /\ w >= 1 /\ w <= shape[3]
  THEN v[(c - 1) * shape[2] * shape[3] + (h - 1) * shape[3] + w]
  ELSE Zero

\* F.conv2d(v, W, stride, padding, bias) on one flattened sample.
F_conv2d(v, shape, W, stride, padding, bias) ==
  LET os == ConvOutShape(shape, W, stride, padding)
      kh == Len(W[1][1])
      kw == Len(W[1][1][1])
      At(o, r, s) ==
        RAdd(RSum(Concat(Concat(
               Tensor([c \in 1..shape[1] |->
                 Tensor([p \in 1..kh |->
                   Tensor([q \in 1..kw |->
                     RMul(Q(W[o][c][p][q]),
                          PadAt(v, shape, c,
                                (r - 1) * stride + p - padding,
                                (s - 1) * stride + q - padding))])])])))),
             Q(bias[o]))
  IN Tensor([t \in 1..(os[1] * os[2] * os[3]) |->
        At(((t - 1) \div (os[2] * os[3])) + 1,
           (((t - 1) % (os[2] * os[3])) \div os[3]) + 1,
           ((t - 1) % os[3]) + 1)])

AbsW4(W) ==
  Tensor([o \in 1..Len(W) |-> Tensor([c \in 1..Len(W[o]) |-> AbsW(W[o][c])])])

\* F.relu
F_relu(v) == Tensor([k \in 1..Len(v) |-> RMax(v[k], Zero)])

(***************************************************************************)
(* Batched helpers: a batch tensor is a sequence (one entry per sample) of *)
(* flattened vectors.                                                      *)
(***************************************************************************)
\* elementwise a + c and a - c of two batch tensors
TAdd(a, c) ==
  Tensor([b \in 1..Len(a) |-> Tensor([k \in 1..Len(a[b]) |->
     RAdd(a[b][k], c[b][k])])])
TSub(a, c) ==
  Tensor([b \in 1..Len(a) |-> Tensor([k \in 1..Len(a[b]) |->
     RSub(a[b][k], c[b][k])])])
Half(a) == RDiv(a, Two)
Mid(a, c) == Half(RAdd(a, c))
Rad(lo, hi) == Half(RSub(hi, lo))
TMid(lower, upper) ==
  Tensor([b \in 1..Len(lower) |-> Tensor([k \in 1..Len(lower[b]) |->
     Mid(lower[b][k], upper[b][k])])])
TRad(lower, upper) ==
  Tensor([b \in 1..Len(lower) |-> Tensor([k \in 1..Len(lower[b]) |->
     Rad(lower[b][k], upper[b][k])])])

\* X.min() and X.max() over the whole batch tensor
TensorMin(T) ==
  LET S == {T[b][k] : b \in 1..Len(T), k \in 1..Len(T[1])}
  IN CHOOSE m \in S : \A z \in S : RLe(m, z)
TensorMax(T) ==
  LET S == {T[b][k] : b \in 1..Len(T), k \in 1..Len(T[1])}
  IN CHOOSE m \in S : \A z \in S : RLe(z, m)

\* torch.clamp(T, lo, hi)
Clamp(T, lo, hi) ==
  Tensor([b \in 1..Len(T) |-> Tensor([k \in 1..Len(T[b]) |-> RMax(lo, RMin(hi, T[b][k]))])])

(***************************************************************************)
(* The two domains (symbolic_interval/interval.py, imported on line 23).   *)
(***************************************************************************)
\* the check made when bounds are stored: lower <= upper everywhere
ValidBounds(lower, upper) ==
  \A b \in 1..Len(lower) : \A k \in 1..Len(lower[b]) :
     RLe(lower[b][k], upper[b][k])

\* Interval(lower, upper)
Interval(lower, upper, shape) ==
  [kind |-> "box", l |-> lower, u |-> upper,
   c |-> TMid(lower, upper), e |-> TRad(lower, upper),
   mask |-> <<>>, shape |-> shape]

\* Interval.update_lu(lower, upper)
update_lu(dom, lower, upper) ==
  [dom EXCEPT !.l = lower, !.u = upper,
              !.c = TMid(lower, upper), !.e = TRad(lower, upper)]

\* Symbolic_interval(lower, upper)
Symbolic_interval(lower, upper, shape) ==
  LET n == Len(lower[1]) IN
  [kind |-> "sym", l |-> lower, u |-> upper,
   c |-> TMid(lower, upper),
   idep |-> Tensor([b \in 1..Len(lower) |-> Tensor([j \in 1..n |-> Tensor([k \in 1..n |->
               IF j = k THEN Rad(lower[b][k], upper[b][k]) ELSE Zero])])]),
   edep |-> <<>>, edep_ind |-> <<>>,
   shape |-> shape, n |-> n, input_size |-> n, batch_size |-> Len(lower),
   flat |-> (Len(shape) = 1)]

\* radius of the concretization of sample b at unit k
ConcRadius(dom, b, k) ==
  RAdd(RSum(Tensor([j \in 1..Len(dom.idep[b]) |-> RAbs(dom.idep[b][j][k])])),
       RSum(Concat(Tensor([t \in 1..Len(dom.edep) |->
              Tensor([r \in 1..Len(dom.edep[t]) |->
                 RMul(Q(dom.edep_ind[t][r][b]), RAbs(dom.edep[t][r][k]))])]))))

ConcLower(dom) ==
  Tensor([b \in 1..Len(dom.c) |-> Tensor([k \in 1..Len(dom.c[b]) |->
     RSub(dom.c[b][k], ConcRadius(dom, b, k))])])
ConcUpper(dom) ==
  Tensor([b \in 1..Len(dom.c) |-> Tensor([k \in 1..Len(dom.c[b]) |->
     RAdd(dom.c[b][k], ConcRadius(dom, b, k))])])

\* Symbolic_interval.concretize()
concretize(dom) == [dom EXCEPT !.l = ConcLower(dom), !.u = ConcUpper(dom)]

\* Symbolic_interval.extend(): flattened layout
extend(dom) == [dom EXCEPT !.flat = TRUE]

\* Symbolic_interval.shrink(): layout given by dom.shape
shrink(dom) == [dom EXCEPT !.flat = (Len(dom.shape) = 1)]

(***************************************************************************)
(* Interval_Dense.forward                                                  *)
(***************************************************************************)
\* variant: the bias is also added to the exact dependencies
Interval_Dense_sym_biased(layer, dom) ==
  LET W == layer.weight
      c1 == Tensor([b \in 1..Len(dom.c) |-> F_linear(dom.c[b], W, layer.bias)])
      d1 == [dom EXCEPT
               !.c = c1,
               !.idep = Tensor([b \in 1..Len(dom.idep) |->
                           Tensor([j \in 1..Len(dom.idep[b]) |->
                              F_linear(dom.idep[b][j], W, layer.bias)])]),
               !.edep = Tensor([t \in 1..Len(dom.edep) |->
                           Tensor([r \in 1..Len(dom.edep[t]) |->
                              F_linear(dom.edep[t][r], W, ZeroBias(W))])]),
               !.shape = <<Len(W)>>,
               !.n = Len(c1[1])]
  IN concretize(d1)

Interval_Dense_sym(layer, dom) ==
  LET W == layer.weight
      c1 == Tensor([b \in 1..Len(dom.c) |-> F_linear(dom.c[b], W, layer.bias)])
      d1 == [dom EXCEPT
               !.c = c1,
               !.idep = Tensor([b \in 1..Len(dom.idep) |->
                           Tensor([j \in 1..Len(dom.idep[b]) |->
                              F_linear(dom.idep[b][j], W, ZeroBias(W))])]),
               !.edep = Tensor([t \in 1..Len(dom.edep) |->
                           Tensor([r \in 1..Len(dom.edep[t]) |->
                              F_linear(dom.edep[t][r], W, ZeroBias(W))])]),
               !.shape = <<Len(W)>>,
               !.n = Len(c1[1])]
  IN concretize(d1)

\* variant: the radius is propagated with the signed weights
Interval_Dense_box_signed(layer, dom) ==
  LET W == layer.weight
      c1 == Tensor([b \in 1..Len(dom.c) |-> F_linear(dom.c[b], W, layer.bias)])
      e1 == Tensor([b \in 1..Len(dom.e) |-> F_linear(dom.e[b], W, ZeroBias(W))])
  IN [update_lu(dom, TSub(c1, e1), TAdd(c1, e1))
        EXCEPT !.shape = <<Len(W)>>]

Interval_Dense_box(layer, dom) ==
  LET W == layer.weight
      c1 == Tensor([b \in 1..Len(dom.c) |-> F_linear(dom.c[b], W, layer.bias)])
      e1 == Tensor([b \in 1..Len(dom.e) |-> F_linear(dom.e[b], AbsW(W), ZeroBias(W))])
  IN [update_lu(dom, TSub(c1, e1), TAdd(c1, e1))
        EXCEPT !.shape = <<Len(W)>>]

Interval_Dense_forward(layer, dom) ==
  IF dom.kind = "sym" THEN Interval_Dense_sym(layer, dom)
  ELSE Interval_Dense_box(layer, dom)

(***************************************************************************)
(* Interval_Conv2d.forward                                                 *)
(***************************************************************************)
Interval_Conv2d_sym(layer, dom) ==
  LET W == layer.weight
      d0 == shrink(dom)
      conv(v, bias) ==
        F_conv2d(v, d0.shape, W, layer.stride, layer.padding, bias)
      c1 == Tensor([b \in 1..Len(d0.c) |-> conv(d0.c[b], layer.bias)])
      d1 == [d0 EXCEPT
               !.c = c1,
               !.idep = Tensor([b \in 1..Len(d0.idep) |->
                           Tensor([j \in 1..Len(d0.idep[b]) |->
                              conv(d0.idep[b][j], ZeroBias(W))])]),
               !.edep = Tensor([t \in 1..Len(d0.edep) |->
                           Tensor([r \in 1..Len(d0.edep[t]) |->
                              conv(d0.edep[t][r], ZeroBias(W))])]),
               !.shape = ConvOutShape(d0.shape, W, layer.stride, layer.padding),
               !.n = Len(c1[1])]
  IN concretize(d1)

Interval_Conv2d_box(layer, dom) ==
  LET W == layer.weight
      c1 == Tensor([b \in 1..Len(dom.c) |->
               F_conv2d(dom.c[b], dom.shape, W, layer.stride, layer.padding,
                        layer.bias)])
      e1 == Tensor([b \in 1..Len(dom.e) |->
               F_conv2d(dom.e[b], dom.shape, AbsW4(W), layer.stride,
                        layer.padding, ZeroBias(W))])
  IN [update_lu(dom, TSub(c1, e1), TAdd(c1, e1))
        EXCEPT !.shape = ConvOutShape(dom.shape, W, layer.stride, layer.padding)]

Interval_Conv2d_forward(layer, dom) ==
  IF dom.kind = "sym" THEN Interval_Conv2d_sym(layer, dom)
  ELSE Interval_Conv2d_box(layer, dom)

(***************************************************************************)
(* Interval_ReLU.forward                                                   *)
(***************************************************************************)
\* (lower<0)*(upper>0)
appr_condition(lower, upper) ==
  Tensor([b \in 1..Len(lower) |-> Tensor([k \in 1..Len(lower[b]) |->
     RLt(lower[b][k], Zero) /\ RLt(Zero, upper[b][k])])])

\* variant: every ambiguous unit is attributed to the first sample
appr_ind_first_sample(cond) ==
  Concat(Tensor([b \in 1..Len(cond) |->
    Concat(Tensor([k \in 1..Len(cond[b]) |->
      IF cond[b][k] THEN << <<1, k>> >> ELSE <<>>]))]))

\* appr_condition.view(-1, n).nonzero(): <<sample, unit>> pairs, row-major
appr_ind(cond) ==
  Concat(Tensor([b \in 1..Len(cond) |->
    Concat(Tensor([k \in 1..Len(cond[b]) |->
      IF cond[b][k] THEN << <<b, k>> >> ELSE <<>>]))]))

\* mask of the symbolic ReLU: (lower>0), overwritten on the ambiguous units
sym_mask(lower, upper) ==
  Tensor([b \in 1..Len(lower) |-> Tensor([k \in 1..Len(lower[b]) |->
     IF appr_condition(lower, upper)[b][k]
     THEN RDiv(upper[b][k], RSub(upper[b][k], lower[b][k]))
     ELSE Bool01(RLt(Zero, lower[b][k]))])])

\* variant: the error magnitude is not halved
sym_appr_err_not_halved(lower, upper) ==
  LET mask == sym_mask(lower, upper) IN
  Tensor([b \in 1..Len(lower) |-> Tensor([k \in 1..Len(lower[b]) |->
     RMul(mask[b][k], RNeg(lower[b][k]))])])

\* appr_err = mask*(-lower)/2.0
sym_appr_err(lower, upper) ==
  LET mask == sym_mask(lower, upper) IN
  Tensor([b \in 1..Len(lower) |-> Tensor([k \in 1..Len(lower[b]) |->
     Half(RMul(mask[b][k], RNeg(lower[b][k])))])])

\* variant: an entry without rows is not appended
ListAppend_nonempty(seq, entry) ==
  IF entry = <<>> THEN seq ELSE seq \o <<entry>>

\* seq += [entry]
ListAppend(seq, entry) == seq \o <<entry>>

Interval_ReLU_sym(dom) ==
  LET lower == dom.l
      upper == dom.u
      cond == appr_condition(lower, upper)
      mask == sym_mask(lower, upper)
      ind == appr_ind(cond)
      m == Len(ind)
      appr_err == sym_appr_err(lower, upper)
      error_row == Tensor([r \in 1..m |-> Tensor([k \in 1..dom.n |->
                      IF k = ind[r][2] THEN appr_err[ind[r][1]][ind[r][2]]
                      ELSE Zero])])
      edep_ind == Tensor([r \in 1..m |-> Tensor([b \in 1..Len(lower) |->
                      IF b = ind[r][1] THEN 1 ELSE 0])])
      \* edep_ind[t].mm(mask): row r, column k
      mm(t, r, k) == RSum(Tensor([b \in 1..Len(mask) |->
                        RMul(Q(dom.edep_ind[t][r][b]), mask[b][k])]))
  IN [dom EXCEPT
        !.c = Tensor([b \in 1..Len(dom.c) |-> Tensor([k \in 1..Len(dom.c[b]) |->
                 RAdd(RMul(dom.c[b][k], mask[b][k]),
                      RMul(appr_err[b][k], Bool01(cond[b][k])))])]),
        !.edep = ListAppend(
                 Tensor([t \in 1..Len(dom.edep) |->
                    Tensor([r \in 1..Len(dom.edep[t]) |->
                       Tensor([k \in 1..Len(dom.edep[t][r]) |->
                          RMul(dom.edep[t][r][k], mm(t, r, k))])])]),
                   error_row),
        !.idep = Tensor([b \in 1..Len(dom.idep) |->
                    Tensor([j \in 1..Len(dom.idep[b]) |->
                       Tensor([k \in 1..Len(dom.idep[b][j]) |->
                          RMul(dom.idep[b][j][k], mask[b][k])])])]),
        !.edep_ind = ListAppend(dom.edep_ind, edep_ind)]

\* the constant 0.000001 of line 190
SlopeGuard == <<1, 1000000>>

\* mask of the box ReLU (lines 184-196)
box_mask(lower, upper) ==
  Tensor([b \in 1..Len(lower) |-> Tensor([k \in 1..Len(lower[b]) |->
     LET appr == Bool01(appr_condition(lower, upper)[b][k])
         m1 == RMul(appr, RDiv(upper[b][k],
                 RAdd(RSub(upper[b][k], lower[b][k]), SlopeGuard)))
         m2 == RSub(RAdd(m1, One), appr)
     IN RMul(m2, Bool01(RLt(Zero, upper[b][k])))])])

\* variant: the lower bound is kept instead of clipped at 0
Interval_ReLU_box_keep_lower(dom) ==
  LET d1 == [dom EXCEPT !.mask = Append(dom.mask, box_mask(dom.l, dom.u))]
  IN update_lu(d1, dom.l,
                   Tensor([b \in 1..Len(dom.u) |-> F_relu(dom.u[b])]))

Interval_ReLU_box(dom) ==
  LET d1 == [dom EXCEPT !.mask = Append(dom.mask, box_mask(dom.l, dom.u))]
  IN update_lu(d1, Tensor([b \in 1..Len(dom.l) |-> F_relu(dom.l[b])]),
                   Tensor([b \in 1..Len(dom.u) |-> F_relu(dom.u[b])]))

Interval_ReLU_forward(dom) ==
  IF dom.kind = "sym" THEN Interval_ReLU_sym(dom)
  ELSE Interval_ReLU_box(dom)

(***************************************************************************)
(* Interval_Flatten.forward                                                *)
(***************************************************************************)
Interval_Flatten_sym(dom) == extend(dom)

\* l.view(l.size(0), -1): same row-major data, shape <<number of elements>>
Interval_Flatten_box(dom) ==
  [update_lu(dom, dom.l, dom.u) EXCEPT !.shape = <<IProd(dom.shape)>>]

Interval_Flatten_forward(dom) ==
  IF dom.kind = "sym" THEN Interval_Flatten_sym(dom)
  ELSE Interval_Flatten_box(dom)

(***************************************************************************)
(* Interval_network                                                        *)
(***************************************************************************)
\* Interval_network.__init__: the four tests made on one layer
LayerEntries(layer) ==
     (IF layer.cls = "Linear"
        THEN << [type |-> "Interval_Dense", layer |-> layer] >> ELSE <<>>)
  \o (IF layer.cls = "ReLU"
        THEN << [type |-> "Interval_ReLU", layer |-> layer] >> ELSE <<>>)
  \o (IF layer.cls = "Conv2d"
        THEN << [type |-> "Interval_Conv2d", layer |-> layer] >> ELSE <<>>)
  \o (IF layer.cls = "Flatten"
        THEN << [type |-> "Interval_Flatten"] >> ELSE <<>>)

\* variant: the transfer functions are collected in reverse order
RECURSIVE Interval_network_reversed(_)
Interval_network_reversed(m) ==
  IF m = <<>> THEN <<>>
  ELSE Interval_network_reversed(Tail(m)) \o LayerEntries(Head(m))

RECURSIVE Interval_network(_)
Interval_network(m) ==
  IF m = <<>> THEN <<>>
  ELSE LayerEntries(Head(m)) \o Interval_network(Tail(m))

\* layer(ix) for one entry of self.net
ApplyLayer(entry, dom) ==
  CASE entry.type = "Interval_Dense" -> Interval_Dense_forward(entry.layer, dom)
    [] entry.type = "Interval_ReLU" -> Interval_ReLU_forward(dom)
    [] entry.type = "Interval_Conv2d" -> Interval_Conv2d_forward(entry.layer, dom)
    [] entry.type = "Interval_Flatten" -> Interval_Flatten_forward(dom)

\* Interval_network.forward on the first cnt entries of a net
RECURSIVE ForwardUpTo(_, _, _)
ForwardUpTo(nt, cnt, dom) ==
  IF cnt = 0 THEN dom
  ELSE ApplyLayer(nt[cnt], ForwardUpTo(nt, cnt - 1, dom))

Interval_network_forward(nt, dom) == ForwardUpTo(nt, Len(nt), dom)

\* the input domain built by naive_interval_analyze / sym_interval_analyze
InputDomain(kind, x, eps, shape) ==
  LET minimum == TensorMin(x)
      maximum == TensorMax(x)
      lower == Clamp(Tensor([b \in 1..Len(x) |-> Tensor([k \in 1..Len(x[b]) |->
                        RSub(x[b][k], eps)])]), minimum, maximum)
      upper == Clamp(Tensor([b \in 1..Len(x) |-> Tensor([k \in 1..Len(x[b]) |->
                        RAdd(x[b][k], eps)])]), minimum, maximum)
  IN IF kind = "sym" THEN Symbolic_interval(lower, upper, shape)
     ELSE Interval(lower, upper, shape)

(***************************************************************************)
(* Inputs: layers of the nn.Sequential model, input batches, radii.        *)
(***************************************************************************)
Linear(W, bias) == [cls |-> "Linear", weight |-> W, bias |-> bias]
Conv2d(W, bias, stride, padding) ==
  [cls |-> "Conv2d", weight |-> W, bias |-> bias,
   stride |-> stride, padding |-> padding]
ReLU == [cls |-> "ReLU"]
Flatten == [cls |-> "Flatten"]
Dropout == [cls |-> "Dropout"]

DenseA == Linear(<< <<1, -1>> >>, <<0>>)
DenseB == Linear(<< <<2>>, <<3>> >>, <<0, 0>>)
DenseC == Linear(<< <<1, 1>>, <<1, -1>> >>, <<0, -1>>)
DenseD == Linear(<< <<-1, -1>>, <<1, -1>> >>, <<0, 0>>)
DenseE == Linear(<< <<1, -1>>, <<-1, 1>> >>, <<0, 0>>)
DenseF == Linear(<< <<-1, -1>> >>, <<0>>)
\* one channel in, one out, 3x3 kernel, stride 1, padding 1
ConvA == Conv2d(<< << << <<0, 0, 0>>, <<1, 0, -1>>, <<0, 0, 0>> >> >> >>,
                <<0>>, 1, 1)
\* one channel in, two out, 1x2 kernel, stride 2, padding 0
ConvB == Conv2d(<< << << <<1, -1>> >> >>, << << <<1, 1>> >> >> >>,
                <<0, -1>>, 2, 0)

Layers == {DenseA, DenseB, DenseC, ReLU, Flatten, Dropout, ConvA, ConvB}

\* deeper networks explored in addition to the bounded ones
ScenarioModels ==
  { <<DenseA, ReLU, DenseB, ReLU>>,
    <<DenseD, ReLU, DenseE, ReLU, DenseF>> }

Shapes == { <<2>>, <<1, 1, 2>> }

Inputs ==
  { << <<Q(1), Q(1)>>, <<Q(0), Q(2)>> >>,
    << <<Q(0), Q(2)>> >>,
    << <<Q(0), Q(1)>> >>,
    << <<Q(-1), Q(1)>> >> }

Radii == { Zero, <<1, 2>>, One, Two }

\* shape requirements of F.linear / F.conv2d along the model
RECURSIVE WellShaped(_, _)
WellShaped(m, shape) ==
  IF m = <<>> THEN TRUE
  ELSE LET L == Head(m) IN
    CASE L.cls = "Linear" ->
           /\ Len(shape) = 1
           /\ shape[1] = Len(L.weight[1])
           /\ WellShaped(Tail(m), <<Len(L.weight)>>)
      [] L.cls = "Conv2d" ->
           /\ Len(shape) = 3
           /\ shape[1] = Len(L.weight[1])
           /\ shape[2] + 2 * L.padding >= Len(L.weight[1][1])
           /\ shape[3] + 2 * L.padding >= Len(L.weight[1][1][1])
           /\ WellShaped(Tail(m),
                ConvOutShape(shape, L.weight, L.stride, L.padding))
      [] L.cls = "Flatten" -> WellShaped(Tail(m), <<IProd(shape)>>)
      [] OTHER -> WellShaped(Tail(m), shape)

Models(shape) ==
  { m \in (UNION {[1..len -> Layers] : len \in 1..MaxLayers})
          \cup (IF shape = <<2>> THEN ScenarioModels ELSE {}) :
      WellShaped(m, shape) }

NoDomain == [kind |-> "none"]

(***************************************************************************)
(* The verification call: naive_interval_analyze / sym_interval_analyze.   *)
(***************************************************************************)
Init ==
  /\ shape0 \in Shapes
  /\ X \in Inputs
  /\ epsilon \in Radii
  /\ domain \in {"sym", "box"}
  /\ model \in Models(shape0)
  /\ net = <<>>
  /\ ix = NoDomain
  /\ i = 0
  /\ pc = "start"

\* inet = Interval_network(model)
BuildNetwork ==
  /\ pc = "start"
  /\ net' = Interval_network(model)
  /\ pc' = "built"
  /\ UNCHANGED <<model, X, shape0, epsilon, domain, ix, i>>

\* ix = Interval(...) / Symbolic_interval(...) of the clamped ball
BuildDomain ==
  /\ pc = "built"
  /\ LET d == InputDomain(domain, X, epsilon, shape0) IN
       IF ValidBounds(d.l, d.u)
       THEN ix' = d /\ pc' = "forward"
       ELSE ix' = ix /\ pc' = "failed"
  /\ i' = 0
  /\ UNCHANGED <<model, X, shape0, epsilon, domain, net>>

\* the loop of Interval_network.forward takes the result d of a transfer
\* function as the new ix; storing invalid box bounds fails the run
Advance(d) ==
  /\ IF d.kind = "box" /\ ~ValidBounds(d.l, d.u)
       THEN ix' = ix /\ i' = i /\ pc' = "failed"
       ELSE ix' = d /\ i' = i + 1 /\ pc' = pc
  /\ UNCHANGED <<model, X, shape0, epsilon, domain, net>>

DenseStep ==
  /\ pc = "forward"
  /\ i < Len(net)
  /\ net[i + 1].type = "Interval_Dense"
  /\ Advance(Interval_Dense_forward(net[i + 1].layer, ix))

Conv2dStep ==
  /\ pc = "forward"
  /\ i < Len(net)
  /\ net[i + 1].type = "Interval_Conv2d"
  /\ Advance(Interval_Conv2d_forward(net[i + 1].layer, ix))

ReLUStep ==
  /\ pc = "forward"
  /\ i < Len(net)
  /\ net[i + 1].type = "Interval_ReLU"
  /\ Advance(Interval_ReLU_forward(ix))

FlattenStep ==
  /\ pc = "forward"
  /\ i < Len(net)
  /\ net[i + 1].type = "Interval_Flatten"
  /\ Advance(Interval_Flatten_forward(ix))

\* forward returns; worst_case reads the bounds of the final domain
Finish ==
  /\ pc = "forward"
  /\ i = Len(net)
  /\ ix' = IF ix.kind = "sym" THEN concretize(ix) ELSE ix
  /\ pc' = "done"
  /\ UNCHANGED <<model, X, shape0, epsilon, domain, net, i>>

Next ==
  \/ BuildNetwork
  \/ BuildDomain
  \/ DenseStep
  \/ Conv2dStep
  \/ ReLUStep
  \/ FlattenStep
  \/ Finish

Spec == Init /\ [][Next]_vars

(***************************************************************************)
(* The concrete network: what the layers of the model compute on one       *)
(* input point (used to state soundness).                                  *)
(***************************************************************************)
ConcreteLayer(entry, st) ==
  CASE entry.type = "Interval_Dense" ->
         [v |-> F_linear(st.v, entry.layer.weight, entry.layer.bias),
          shape |-> <<Len(entry.layer.weight)>>]
    [] entry.type = "Interval_ReLU" -> [st EXCEPT !.v = F_relu(st.v)]
    [] entry.type = "Interval_Conv2d" ->
         [v |-> F_conv2d(st.v, st.shape, entry.layer.weight,
                         entry.layer.stride, entry.layer.padding,
                         entry.layer.bias),
          shape |-> ConvOutShape(st.shape, entry.layer.weight,
                                 entry.layer.stride, entry.layer.padding)]
    [] entry.type = "Interval_Flatten" ->
         [st EXCEPT !.shape = <<IProd(st.shape)>>]

RECURSIVE ConcreteUpTo(_, _, _)
ConcreteUpTo(nt, cnt, st) ==
  IF cnt = 0 THEN st
  ELSE ConcreteLayer(nt[cnt], ConcreteUpTo(nt, cnt - 1, st))

\* the input domain of the run in progress
ix0 == InputDomain(domain, X, epsilon, shape0)

\* input points of sample b: every coordinate at its lower bound, centre or
\* upper bound
Points(b) ==
  { Tensor([k \in 1..Len(ix0.l[b]) |-> sel[k]]) :
      sel \in [1..Len(ix0.l[b]) ->
                 UNION {{ix0.l[b][k], ix0.c[b][k], ix0.u[b][k]} :
                          k \in 1..Len(ix0.l[b])}] }

InBall(b, p) ==
  \A k \in 1..Len(p) : RLe(ix0.l[b][k], p[k]) /\ RLe(p[k], ix0.u[b][k])

\* the bounds a domain stands for
LowerOf(dom) == IF dom.kind = "sym" THEN ConcLower(dom) ELSE dom.l
UpperOf(dom) == IF dom.kind = "sym" THEN ConcUpper(dom) ELSE dom.u

Running == pc \in {"forward", "done"}

OnlyClasses(m, classes) == \A t \in 1..Len(m) : m[t].cls \in classes

Sound(dom) ==
  \A b \in 1..Len(X) : \A p \in Points(b) :
    InBall(b, p) =>
      LET a == ConcreteUpTo(net, i, [v |-> p, shape |-> shape0]).v IN
      \A k \in 1..Len(a) :
        /\ RLe(LowerOf(dom)[b][k], a[k])
        /\ RLe(a[k], UpperOf(dom)[b][k])

\* C1: soundness after every transfer function, for networks of
\* Dense/ReLU/Flatten layers and both domains: the concrete activation of
\* every unit, for every input point of the ball, lies within the propagated
\* bounds of that unit.
C1_Soundness ==
  (Running /\ OnlyClasses(model, {"Linear", "ReLU", "Flatten"})) => Sound(ix)

(***************************************************************************)
(* Monotonicity in the radius.                                             *)
(***************************************************************************)
\* a unit whose bounds, as read by the ReLU, are lower == 0 < upper
ZeroLower(dom) ==
  \E b \in 1..Len(dom.l) : \E k \in 1..Len(dom.l[b]) :
    dom.l[b][k] = Zero /\ RLt(Zero, dom.u[b][k])

\* no ReLU of the run from d0 reads a unit with lower == 0 < upper
NoZeroLower(nt, d0) ==
  \A t \in 1..Len(nt) :
    nt[t].type = "Interval_ReLU" => ~ZeroLower(ForwardUpTo(nt, t - 1, d0))

\* the runs in which the symbolic ReLU never meets lower == 0 < upper,
\* at the radius of the run and at every smaller radius
InitMono ==
  /\ Init
  /\ \A r \in Radii :
       RLe(r, epsilon) =>
         NoZeroLower(Interval_network(model),
                     InputDomain("sym", X, r, shape0))

SpecMono == InitMono /\ [][Next]_vars

\* final domain of the same network and nominal input at radius r
FinalAt(r) ==
  LET d == Interval_network_forward(net, InputDomain(domain, X, r, shape0))
  IN IF d.kind = "sym" THEN concretize(d) ELSE d

NoTighterThan(r) ==
  LET d == FinalAt(r) IN
  \A b \in 1..Len(ix.l) : \A k \in 1..Len(ix.l[b]) :
    /\ RLe(ix.l[b][k], d.l[b][k])
    /\ RLe(d.u[b][k], ix.u[b][k])

\* C3 as stated: in both domains the final bounds at radius r2 are no
\* tighter than the final bounds at any radius r1 <= r2.
C3_Monotone ==
  pc = "done" => \A r \in Radii : RLe(r, epsilon) => NoTighterThan(r)

\* C3 (amended): in the box domain the final bounds at radius r2 are no
\* tighter than the final bounds at any radius r1 <= r2.
C3_BoxMonotone ==
  (pc = "done" /\ domain = "box") =>
     \A r \in Radii : RLe(r, epsilon) => NoTighterThan(r)

\* a finished box run through a ReLU whose bounds are strictly wider than
\* at a smaller radius
C3_Witness ==
  /\ pc = "done"
  /\ domain = "box"
  /\ \E t \in 1..Len(net) : net[t].type = "Interval_ReLU"
  /\ \E t \in 1..Len(net) : net[t].type = "Interval_Dense"
  /\ \E r \in Radii :
       /\ RLt(r, epsilon)
       /\ \E b \in 1..Len(ix.l) : \E k \in 1..Len(ix.l[b]) :
            RLt(ix.l[b][k], FinalAt(r).l[b][k])

(***************************************************************************)
(* Affine exactness.                                                       *)
(***************************************************************************)
AffineOnly == OnlyClasses(model, {"Linear", "Conv2d", "Flatten"})

\* the box domain after the same cnt transfer functions on the same ball
BoxAt(cnt) == ForwardUpTo(net, cnt, InputDomain("box", X, epsilon, shape0))

\* number of Dense/Conv transfer functions among the first cnt
AffineCount(cnt) ==
  Cardinality({t \in 1..cnt :
                 net[t].type \in {"Interval_Dense", "Interval_Conv2d"}})

\* C2 as stated: without ReLU the symbolic error_deps stay empty after every
\* layer and the symbolic concretized bounds equal the box bounds exactly.
C2_AffineExact ==
  (Running /\ domain = "sym" /\ AffineOnly) =>
     /\ ix.edep = <<>>
     /\ LowerOf(ix) = BoxAt(i).l
     /\ UpperOf(ix) = BoxAt(i).u

\* C2 (amended): without ReLU the symbolic error_deps stay empty after every
\* layer and the symbolic concretized bounds lie within the box bounds; they
\* are equal as long as at most one Dense/Conv layer has been applied.
C2_AffineWithin ==
  (Running /\ domain = "sym" /\ AffineOnly) =>
     LET box == BoxAt(i)
         lo == LowerOf(ix)
         hi == UpperOf(ix)
     IN /\ ix.edep = <<>>
        /\ ix.edep_ind = <<>>
        /\ \A b \in 1..Len(lo) : \A k \in 1..Len(lo[b]) :
             /\ RLe(box.l[b][k], lo[b][k])
             /\ RLe(hi[b][k], box.u[b][k])
        /\ AffineCount(i) <= 1 => (lo = box.l /\ hi = box.u)

\* two affine layers applied, the symbolic bounds strictly inside the box's
C2_Witness ==
  /\ Running /\ domain = "sym" /\ AffineOnly
  /\ AffineCount(i) >= 2
  /\ \E b \in 1..Len(ix.l) : \E k \in 1..Len(ix.l[b]) :
       RLt(BoxAt(i).l[b][k], LowerOf(ix)[b][k])

(***************************************************************************)
(* Network driver.                                                         *)
(***************************************************************************)
Recognized(layer) == layer.cls \in {"Linear", "ReLU", "Conv2d", "Flatten"}

TransferOf(layer) ==
  CASE layer.cls = "Linear" -> [type |-> "Interval_Dense", layer |-> layer]
    [] layer.cls = "ReLU" -> [type |-> "Interval_ReLU", layer |-> layer]
    [] layer.cls = "Conv2d" -> [type |-> "Interval_Conv2d", layer |-> layer]
    [] layer.cls = "Flatten" -> [type |-> "Interval_Flatten"]

\* one transfer function per recognized layer, in the order of the layers
ExpectedNet ==
  LET kept == SelectSeq(model, Recognized)
  IN Tensor([t \in 1..Len(kept) |-> TransferOf(kept[t])])

\* C5: the driver holds exactly one transfer function per recognized layer
\* in the order of the layers and nothing for an unrecognized layer; forward
\* applies them one after another in that order, each to the result of the
\* previous one, and returns the result of the last.
C5_DriverOrder ==
  /\ [](pc # "start" => net = ExpectedNet)
  /\ [](pc = "forward" => ix = ForwardUpTo(ExpectedNet, i, ix0))
  /\ [](pc = "done" => i = Len(ExpectedNet))
  /\ [][(pc = "forward" /\ pc' = "forward") =>
          (i' = i + 1 /\ ix' = ApplyLayer(ExpectedNet[i'], ix))]_vars
  /\ [][(pc = "forward" /\ pc' = "done") =>
          ix' = (IF domain = "sym"
                   THEN concretize(Interval_network_forward(ExpectedNet, ix0))
                   ELSE Interval_network_forward(ExpectedNet, ix0))]_vars

\* a finished run over a model with a skipped layer and two kinds of
\* transfer functions
C5_Witness ==
  /\ pc = "done"
  /\ \E t \in 1..Len(model) : ~Recognized(model[t])
  /\ Len(net) >= 2
  /\ net[1].type # net[2].type

(***************************************************************************)
(* The ReLU transfer function.                                             *)
(***************************************************************************)
\* the ReLU transfer function runs on a domain of the given kind
ReLUFires(kind) ==
  /\ pc = "forward"
  /\ i < Len(net)
  /\ net[i + 1].type = "Interval_ReLU"
  /\ domain = kind
  /\ i' = i + 1

\* ambiguous units <<sample, unit>> of a domain: lower < 0 < upper
Ambiguous(dom) ==
  {bk \in (1..Len(dom.l)) \X (1..Len(dom.l[1])) :
     RLt(dom.l[bk[1]][bk[2]], Zero) /\ RLt(Zero, dom.u[bk[1]][bk[2]])}

\* rows of entry t of error_owner that point at sample b
RowsOf(dom, t, b) == {r \in 1..Len(dom.edep_ind[t]) : dom.edep_ind[t][r][b] = 1}

Last(seq) == seq[Len(seq)]

\* C4: a symbolic ReLU layer with k ambiguous units appends an error_deps
\* entry of k rows and an error_owner entry of k rows, each row one-hot at
\* the sample owning the ambiguous unit of that row; every sample owns as
\* many rows as it has ambiguous units.
C4_ErrorRows ==
  [][ReLUFires("sym") =>
       LET amb == Ambiguous(ix)
           rows == Last(ix'.edep)
           owner == Last(ix'.edep_ind)
           B == Len(ix.l)
           OwnerOf(r) == CHOOSE b \in 1..B : owner[r][b] # 0
           UnitOf(r) == CHOOSE k \in 1..Len(rows[r]) : rows[r][k] # Zero
       IN /\ Len(ix'.edep) = Len(ix.edep) + 1
          /\ Len(ix'.edep_ind) = Len(ix.edep_ind) + 1
          /\ Len(rows) = Cardinality(amb)
          /\ Len(owner) = Cardinality(amb)
          /\ \A r \in 1..Len(owner) :
               /\ Cardinality({b \in 1..B : owner[r][b] # 0}) = 1
               /\ owner[r][OwnerOf(r)] = 1
               /\ Cardinality({k \in 1..Len(rows[r]) : rows[r][k] # Zero}) = 1
               /\ <<OwnerOf(r), UnitOf(r)>> \in amb
          /\ \A b \in 1..B :
               Cardinality({r \in 1..Len(owner) : owner[r][b] = 1})
                 = Cardinality({bk \in amb : bk[1] = b})
          /\ \A bk \in amb : \E r \in 1..Len(owner) :
               OwnerOf(r) = bk[1] /\ UnitOf(r) = bk[2]]_vars

\* a batch of two has passed a symbolic ReLU and both samples own rows of
\* the appended entry
C4_Witness ==
  /\ pc = "forward" /\ domain = "sym" /\ i >= 1
  /\ net[i].type = "Interval_ReLU"
  /\ Len(X) = 2
  /\ RowsOf(ix, Len(ix.edep_ind), 1) # {}
  /\ RowsOf(ix, Len(ix.edep_ind), 2) # {}
  /\ Len(Last(ix.edep)) >= 2

\* what the ReLU does to unit <<b, k>> with the given slope: centre, exact
\* dependencies and the existing error rows of sample b are scaled by it
ScaledBy(slope, shift, b, k) ==
  /\ ix'.c[b][k] = RAdd(RMul(slope, ix.c[b][k]), shift)
  /\ \A j \in 1..Len(ix.idep[b]) :
       ix'.idep[b][j][k] = RMul(slope, ix.idep[b][j][k])
  /\ \A t \in 1..Len(ix.edep) : \A r \in RowsOf(ix, t, b) :
       ix'.edep[t][r][k] = RMul(slope, ix.edep[t][r][k])

\* rows of the appended entry that belong to unit <<b, k>>
NewRows(b, k) ==
  {r \in RowsOf(ix', Len(ix'.edep_ind), b) : Last(ix'.edep)[r][k] # Zero}

\* C6: the symbolic ReLU uses slope 0 on every unit with upper <= 0 and
\* slope 1 on every unit with lower >= 0 (lower == 0 included), and creates
\* no error row for such a unit.
C6_Determined ==
  [][ReLUFires("sym") =>
       \A b \in 1..Len(ix.l) : \A k \in 1..Len(ix.l[b]) :
          /\ RLe(ix.u[b][k], Zero) =>
               (ScaledBy(Zero, Zero, b, k) /\ NewRows(b, k) = {})
          /\ RLe(Zero, ix.l[b][k]) =>
               (ScaledBy(One, Zero, b, k) /\ NewRows(b, k) = {})]_vars

\* slope and error magnitude of the relaxation of an ambiguous unit
Lambda(lo, hi) == RDiv(hi, RSub(hi, lo))
Mu(lo, hi) == Half(RMul(Lambda(lo, hi), RNeg(lo)))

\* sample b of the run is the ball [0.5, 1.5]^2 sent through
\* Dense(weight=[[1,-1]], bias=[0]) -> ReLU
Scenario(b) ==
  /\ domain = "sym"
  /\ pc = "forward"
  /\ Len(net) >= 2
  /\ net[1] = [type |-> "Interval_Dense", layer |-> DenseA]
  /\ net[2].type = "Interval_ReLU"
  /\ ix0.l[b] = << <<1, 2>>, <<1, 2>> >>
  /\ ix0.u[b] = << <<3, 2>>, <<3, 2>> >>

\* C7: on an ambiguous unit the symbolic ReLU sets the centre to
\* lambda*centre + mu, scales the exact dependencies and the existing error
\* rows of the owning sample at that unit by lambda and appends exactly one
\* error row, mu at that unit and 0 elsewhere; on the ball [0.5, 1.5]^2
\* behind Dense([[1,-1]], [0]) the pre-ReLU bounds are [-1, 1], the slope is
\* 0.5 and a single error row of magnitude 0.25 is injected.
C7_AmbiguousUnit ==
  /\ [][ReLUFires("sym") =>
          \A bk \in Ambiguous(ix) :
            LET b == bk[1]
                k == bk[2]
                lam == Lambda(ix.l[b][k], ix.u[b][k])
                mu == Mu(ix.l[b][k], ix.u[b][k])
            IN /\ ScaledBy(lam, mu, b, k)
               /\ Cardinality(NewRows(b, k)) = 1
               /\ \A r \in NewRows(b, k) :
                    \A kk \in 1..Len(Last(ix'.edep)[r]) :
                      Last(ix'.edep)[r][kk] = IF kk = k THEN mu ELSE Zero]_vars
  /\ [](\A b \in 1..Len(X) :
          /\ (Scenario(b) /\ i = 1) =>
               /\ ix.l[b] = << <<-1, 1>> >>
               /\ ix.u[b] = << <<1, 1>> >>
               /\ Lambda(ix.l[b][1], ix.u[b][1]) = <<1, 2>>
          /\ (Scenario(b) /\ i = 2) =>
               /\ ix.c[b] = << <<1, 4>> >>
               /\ ix.idep[b] = << << <<1, 4>> >>, << <<-1, 4>> >> >>
               /\ Cardinality(RowsOf(ix, 1, b)) = 1
               /\ \A r \in RowsOf(ix, 1, b) : ix.edep[1][r] = << <<1, 4>> >>)

\* the scenario continued through Dense([[2],[3]]) and a second ReLU: the
\* error row injected by the first ReLU has been scaled by the slopes 2/3
C7_Witness ==
  /\ pc = "forward" /\ domain = "sym" /\ i = 4
  /\ model = <<DenseA, ReLU, DenseB, ReLU>>
  /\ ix0.l[1] = << <<1, 2>>, <<1, 2>> >>
  /\ ix0.u[1] = << <<3, 2>>, <<3, 2>> >>
  /\ ix.edep[1] = << << <<1, 3>>, <<1, 2>> >> >>
  /\ Len(ix.edep[2]) = 2

\* slope of the relaxation of a unit: 0 if upper <= 0, 1 if lower >= 0,
\* upper/(upper-lower) if ambiguous
Slope(lo, hi) ==
  IF RLe(hi, Zero) THEN Zero
  ELSE IF RLe(Zero, lo) THEN One
  ELSE Lambda(lo, hi)

\* C8 as stated: the box ReLU sets the new bounds from the slope-scaled
\* centre and radius: lower = lambda*(centre - radius),
\* upper = lambda*(centre + radius).
C8_SlopeScaled ==
  [][ReLUFires("box") =>
       \A b \in 1..Len(ix.l) : \A k \in 1..Len(ix.l[b]) :
         LET lam == Slope(ix.l[b][k], ix.u[b][k]) IN
         /\ ix'.l[b][k] = RMul(lam, RSub(ix.c[b][k], ix.e[b][k]))
         /\ ix'.u[b][k] = RMul(lam, RAdd(ix.c[b][k], ix.e[b][k]))]_vars

\* C8 (amended): the box ReLU sets the new bounds to the elementwise relu of
\* the old bounds (0 and upper on an ambiguous unit), recomputes centre and
\* radius from them, and only appends the slope mask to the mask list.
C8_ReluOfBounds ==
  [][ReLUFires("box") =>
       /\ Len(ix'.mask) = Len(ix.mask) + 1
       /\ \A t \in 1..Len(ix.mask) : ix'.mask[t] = ix.mask[t]
       /\ \A b \in 1..Len(ix.l) : \A k \in 1..Len(ix.l[b]) :
            LET lo == ix.l[b][k]
                hi == ix.u[b][k]
            IN /\ ix'.l[b][k] = RMax(lo, Zero)
               /\ ix'.u[b][k] = RMax(hi, Zero)
               /\ ix'.c[b][k] = Mid(ix'.l[b][k], ix'.u[b][k])
               /\ ix'.e[b][k] = Rad(ix'.l[b][k], ix'.u[b][k])
               /\ (RLt(lo, Zero) /\ RLt(Zero, hi)) =>
                    /\ ix'.l[b][k] = Zero
                    /\ ix'.u[b][k] = hi
                    /\ Last(ix'.mask)[b][k] =
                         RDiv(hi, RAdd(RSub(hi, lo), SlopeGuard))
               /\ RLe(hi, Zero) => Last(ix'.mask)[b][k] = Zero
               /\ (RLe(Zero, lo) /\ RLt(Zero, hi)) =>
                    Last(ix'.mask)[b][k] = One]_vars

\* a box ReLU has acted on an ambiguous unit behind a Dense layer: its
\* stored slope lies strictly between 0 and 1 and its new lower bound is 0
C8_Witness ==
  /\ pc = "forward" /\ domain = "box" /\ i >= 2
  /\ net[i].type = "Interval_ReLU"
  /\ net[i - 1].type = "Interval_Dense"
  /\ \E b \in 1..Len(ix.l) : \E k \in 1..Len(ix.l[b]) :
       /\ RLt(Zero, Last(ix.mask)[b][k])
       /\ RLt(Last(ix.mask)[b][k], One)
       /\ ix.l[b][k] = Zero
       /\ RLt(Zero, ix.u[b][k])

\* C9: whenever a transfer function reads the lower/upper of the symbolic
\* domain (the ReLU does), they equal the concretization of the domain's
\* current centre, exact_dep and error_deps.
C9_ConcretizedWhenRead ==
  (/\ pc = "forward" /\ domain = "sym"
   /\ i < Len(net) /\ net[i + 1].type = "Interval_ReLU")
    => (ix.l = ConcLower(ix) /\ ix.u = ConcUpper(ix))

\* ReLU transfer functions among the first cnt
ReLUsUpTo(cnt) == {t \in 1..cnt : net[t].type = "Interval_ReLU"}

\* the domain read by transfer function t of the run
DomainBefore(t) == ForwardUpTo(net, t - 1, ix0)

\* C10 as stated: error_deps and error_owner have equal length, and the
\* length is the number of ReLU layers executed so far that had at least
\* one ambiguous unit.
C10_LengthAmbiguous ==
  (pc = "forward" /\ domain = "sym") =>
     /\ Len(ix.edep) = Len(ix.edep_ind)
     /\ Len(ix.edep) =
          Cardinality({t \in ReLUsUpTo(i) : Ambiguous(DomainBefore(t)) # {}})

\* C10 (amended): error_deps and error_owner have equal length, no step
\* shortens them, Dense/Conv/Flatten leave the length unchanged, and the
\* length is the number of ReLU layers executed so far; a ReLU layer without
\* ambiguous unit appends an entry with zero rows.
C10_LengthReLUs ==
  /\ []((pc = "forward" /\ domain = "sym") =>
          /\ Len(ix.edep) = Len(ix.edep_ind)
          /\ Len(ix.edep) = Cardinality(ReLUsUpTo(i))
          /\ \A t \in ReLUsUpTo(i) :
               LET e == Cardinality({s \in ReLUsUpTo(i) : s <= t}) IN
               /\ Len(ix.edep[e]) = Cardinality(Ambiguous(DomainBefore(t)))
               /\ Len(ix.edep_ind[e]) = Len(ix.edep[e]))
  /\ [][(pc = "forward" /\ pc' = "forward" /\ domain = "sym") =>
          /\ Len(ix'.edep) >= Len(ix.edep)
          /\ net[i'].type # "Interval_ReLU" =>
               Len(ix'.edep) = Len(ix.edep)]_vars

\* a ReLU without ambiguous unit, a Dense layer and a ReLU with ambiguous
\* units have run: two entries, the first with zero rows
C10_Witness ==
  /\ pc = "forward" /\ domain = "sym" /\ i = 3
  /\ net[1].type = "Interval_ReLU"
  /\ net[2].type = "Interval_Dense"
  /\ net[3].type = "Interval_ReLU"
  /\ Len(ix.edep) = 2
  /\ ix.edep[1] = <<>>
  /\ ix.edep[2] # <<>>

====
